---- MODULE Spec2Model ----
(***************************************************************************)
(* The authenticated request lifecycle of strava-cli: the credential store *)
(* (internal/config), the token refresher and the two-step remote login    *)
(* (internal/auth, cmd/auth.go), the retrying transport                    *)
(* (internal/client/transport.go) and the upload poller (cmd/uploads.go).  *)
(***************************************************************************)
EXTENDS Integers, Sequences, FiniteSets, TLC

VARIABLES
    cfg,        \* *config.Config held by the running command
    disk,       \* contents of config.json: a Config, or Corrupt
    nowMs,      \* wall clock, milliseconds
    tokenCalls, \* requests POSTed to the token endpoint, oldest first
    lastRefresh,\* record of the latest RefreshIfExpired call
    pc,         \* position inside retryTransport.RoundTrip
    req,        \* the *http.Request handed to RoundTrip
    attempt,    \* RoundTrip's loop variable
    bodyStream, \* state of req.Body: "none", "fresh" or "consumed"
    sent,       \* calls of t.base.RoundTrip, oldest first
    checks,     \* RefreshIfExpired calls made by this RoundTrip
    slept,      \* time.Sleep durations of this RoundTrip, ms
    result,     \* what RoundTrip returned
    lastCmd,    \* record of the latest `auth login` command
    cmds,       \* number of `auth login` commands run
    ppc,        \* position inside pollUpload
    cancelled,  \* cmd.Context() is done
    pollStartMs,\* clock when pollUpload started
    nextTickMs, \* when ticker.C next receives a tick
    fetches,    \* fetchUploadStatus calls made by pollUpload
    lastJob,    \* the uploadStatus the latest fetch decoded
    pollResult, \* what pollUpload returned
    lpc,        \* position inside loginLocal
    listening,  \* the callback listener accepts connections
    handlers,   \* the callback requests and the state of their handlers
    codeCh,     \* buffered channel codeCh
    errCh,      \* buffered channel errCh
    serve,      \* state of the goroutine running srv.Serve
    localResult,\* what loginLocal returned
    endpoint,   \* the token endpoint: "up", or "silent" when it takes a POST
                \* and never answers
    gate        \* the write command run: its flags, the answer typed at the
                \* prompt and what confirmMutation returned

storeVars == <<cfg, disk, tokenCalls, lastRefresh, endpoint>>

tripVars == <<pc, req, attempt, bodyStream, sent, checks, slept, result>>

authVars == <<lastCmd, cmds, gate>>

pollVars == <<ppc, cancelled, pollStartMs, nextTickMs, fetches, lastJob,
              pollResult>>

localVars == <<lpc, listening, handlers, codeCh, errCh, serve, localResult>>

vars == <<storeVars, nowMs, tripVars, authVars, pollVars, localVars>>

----------------------------------------------------------------------------
(* Program constants *)

maxRetries == 3

\* Lifetime of a PendingAuth, seconds.
pendingTTL == 600

\* pollUpload's ticker period and deadline, ms.
pollInterval == 3000

timeout == 300000

baseBackoff == 500

refreshBuffer == 30

\* Capacity of codeCh and of errCh.
chanCap == 1

\* loginLocal's wait for the callback, ms.
loginTimeout == 300000

StatusOK == 200

StatusTooManyRequests == 429

----------------------------------------------------------------------------
(* Bounds of the model *)

\* Longest network latency of one HTTP exchange, in seconds.
MaxLatencySec == 1

\* Number of `auth login` commands in a run of the login specification.
MaxCommands == 3

\* Longest time, seconds, the login specification lets pass in all.
MaxIdleSec == 900

\* Number of status fetches in a run of the poller specification.
MaxFetches == 3

\* Callback requests the browser (or anything else on the host) makes during
\* one local login.
MaxCallbacks == 3

----------------------------------------------------------------------------
(* Values *)

None == [none |-> TRUE]

Corrupt == [corrupt |-> TRUE]

NoTokens == [access |-> "", refresh |-> "", expires |-> 0]

Unix(ms) == ms \div 1000

Last(s) == s[Len(s)]

Payloads == {"p1"}

\* Status codes a server answers with: success, client errors, rate limit,
\* server errors.
Statuses == {200, 404, 429, 503}

Latencies == {0, MaxLatencySec * 1000}

SaveOutcomes == {"ok", "err", "partial"}

----------------------------------------------------------------------------
(* internal/config: the credential store *)

\* config.Config restricted to the fields the request lifecycle reads.
Config(tokens, pending) == [tokens |-> tokens, pending |-> pending]

EmptyConfig == Config(NoTokens, None)

\* config.Load: a missing file is the empty Config; an unparsable file is
\* an error.
Load(d) ==
    IF d = Corrupt
    THEN [err |-> "parse config", cfg |-> EmptyConfig]
    ELSE [err |-> "", cfg |-> d]

\* config.Save: the file after the call. MkdirAll or the open may fail before
\* anything is written ("err"); os.WriteFile truncates and then writes, so a
\* failing write leaves a truncated file ("partial").
Save(c, d, so) ==
    CASE so = "ok" -> c
      [] so = "err" -> d
      [] OTHER -> Corrupt

SaveErr(so) == IF so = "ok" THEN "" ELSE "write config"

----------------------------------------------------------------------------
(* internal/auth: token endpoint exchanges *)

\* What the token endpoint may answer to one POST at Unix time now: no
\* answer, an undecodable body, an error status (with or without a token in
\* its body), a 200 without access_token, and a 200 with a new pair that
\* expires soon or in six hours.
TokenResponses(now) ==
    {[kind |-> "neterr", status |-> 0, access |-> "", refresh |-> "",
      expires |-> 0],
     [kind |-> "badjson", status |-> 200, access |-> "", refresh |-> "",
      expires |-> 0],
     [kind |-> "json", status |-> 401, access |-> "", refresh |-> "",
      expires |-> 0],
     [kind |-> "json", status |-> 500, access |-> "tokB", refresh |-> "r1",
      expires |-> now + 21600],
     [kind |-> "json", status |-> 200, access |-> "", refresh |-> "r1",
      expires |-> now + 21600],
     [kind |-> "json", status |-> 200, access |-> "tokB", refresh |-> "r1",
      expires |-> now + 10],
     [kind |-> "json", status |-> 200, access |-> "tokB", refresh |-> "r1",
      expires |-> now + 21600]}

\* postToken without the test of the status.
postToken_AnyStatus(tr) ==
    IF tr.kind = "neterr" THEN [err |-> "POST", tokens |-> NoTokens]
    ELSE IF tr.kind = "badjson"
    THEN [err |-> "decode response", tokens |-> NoTokens]
    ELSE IF tr.access = ""
    THEN [err |-> "no access_token in response", tokens |-> NoTokens]
    ELSE [err |-> "",
          tokens |-> [access |-> tr.access, refresh |-> tr.refresh,
                      expires |-> tr.expires]]

\* postToken: the result of one POST given the endpoint's answer.
postToken(tr) ==
    IF tr.kind = "neterr" THEN [err |-> "POST", tokens |-> NoTokens]
    ELSE IF tr.kind = "badjson"
    THEN [err |-> "decode response", tokens |-> NoTokens]
    ELSE IF tr.status # StatusOK THEN [err |-> "HTTP", tokens |-> NoTokens]
    ELSE IF tr.access = ""
    THEN [err |-> "no access_token in response", tokens |-> NoTokens]
    ELSE [err |-> "",
          tokens |-> [access |-> tr.access, refresh |-> tr.refresh,
                      expires |-> tr.expires]]

\* The form a refresh_token grant POSTs.
RefreshForm(c) ==
    [grant |-> "refresh_token", code |-> "", refresh |-> c.tokens.refresh]

\* The form an authorization_code grant POSTs.
CodeForm(code) == [grant |-> "authorization_code", code |-> code, refresh |-> ""]

refreshTokens(c, tr) == postToken(tr)

exchangeCode(code, tr) ==
    LET r == postToken(tr)
    IN  IF r.err # "" THEN [err |-> "token exchange", tokens |-> NoTokens] ELSE r

\* IsFresh without the 30-second buffer.
IsFresh_NoBuffer(now, tokens) == now < tokens.expires

\* The freshness test of RefreshIfExpired: TRUE when no refresh is needed.
IsFresh(now, tokens) == now + refreshBuffer < tokens.expires

\* The answers of the token endpoint, and the outcomes of the Save, that
\* matter to RefreshIfExpired on Config c at Unix time now: one stands for
\* all when no refresh is made.
RefreshAnswers(c, now) ==
    IF c.tokens.access = "" \/ IsFresh(now, c.tokens)
    THEN {CHOOSE tr \in TokenResponses(now) : tr.kind = "neterr"}
    ELSE TokenResponses(now)

RefreshSaves(c, now) ==
    IF c.tokens.access = "" \/ IsFresh(now, c.tokens)
    THEN {"ok"}
    ELSE SaveOutcomes

\* RefreshIfExpired without the test of the access token.
RefreshIfExpired_NoAuthCheck(c, d, now, tr, so) ==
    IF IsFresh(now, c.tokens)
    THEN [cfg |-> c, disk |-> d, err |-> "", posts |-> <<>>]
    ELSE LET r == refreshTokens(c, tr)
             c2 == [c EXCEPT !.tokens = r.tokens]
         IN  IF r.err # ""
             THEN [cfg |-> c, disk |-> d, err |-> "refresh token",
                   posts |-> <<RefreshForm(c)>>]
             ELSE [cfg |-> c2, disk |-> Save(c2, d, so), err |-> SaveErr(so),
                   posts |-> <<RefreshForm(c)>>]

\* RefreshIfExpired(cfg) at Unix time now, when the token endpoint would
\* answer tr and a Save would end so: the Config and the file afterwards, the
\* error returned and the POSTs made.
RefreshIfExpired(c, d, now, tr, so) ==
    IF c.tokens.access = ""
    THEN [cfg |-> c, disk |-> d, err |-> "not authenticated", posts |-> <<>>]
    ELSE IF IsFresh(now, c.tokens)
    THEN [cfg |-> c, disk |-> d, err |-> "", posts |-> <<>>]
    ELSE LET r == refreshTokens(c, tr)
             c2 == [c EXCEPT !.tokens = r.tokens]
         IN  IF r.err # ""
             THEN [cfg |-> c, disk |-> d, err |-> "refresh token",
                   posts |-> <<RefreshForm(c)>>]
             ELSE [cfg |-> c2, disk |-> Save(c2, d, so), err |-> SaveErr(so),
                   posts |-> <<RefreshForm(c)>>]

----------------------------------------------------------------------------
(* internal/auth and cmd/auth.go: the two-step remote login *)

(* Text the operator pastes is a sequence of symbols: the separators of a    *)
(* URL one by one, and each run of other characters as one symbol.           *)

Contains(s, x) == \E i \in 1..Len(s) : s[i] = x

\* Index of the first x in s, 0 when there is none.
FirstIndex(s, x) ==
    IF Contains(s, x)
    THEN CHOOSE i \in 1..Len(s) : s[i] = x /\ \A j \in 1..(i - 1) : s[j] # x
    ELSE 0

RECURSIVE TrimLeft(_)
TrimLeft(s) == IF s # <<>> /\ Head(s) = " " THEN TrimLeft(Tail(s)) ELSE s

RECURSIVE TrimRight(_)
TrimRight(s) ==
    IF s # <<>> /\ s[Len(s)] = " "
    THEN TrimRight(SubSeq(s, 1, Len(s) - 1))
    ELSE s

\* strings.TrimSpace
TrimSpace(s) == TrimRight(TrimLeft(s))

IsNotBackslash(x) == x # "\\"

\* strings.ReplaceAll(input, `\`, "")
StripBackslashes(s) == SelectSeq(s, IsNotBackslash)

\* strings.Split(s, sep)
RECURSIVE Split(_, _)
Split(s, sep) ==
    IF ~Contains(s, sep) THEN <<s>>
    ELSE <<SubSeq(s, 1, FirstIndex(s, sep) - 1)>>
         \o Split(SubSeq(s, FirstIndex(s, sep) + 1, Len(s)), sep)

\* url.Parse fails on a control character; the other inputs modelled parse.
ParseOK(s) == ~Contains(s, "<ctl>")

\* The RawQuery of the parsed URL: what follows the first "?", the fragment
\* cut off first.
RawQuery(s) ==
    LET u == IF Contains(s, "#") THEN SubSeq(s, 1, FirstIndex(s, "#") - 1)
             ELSE s
    IN  IF Contains(u, "?") THEN SubSeq(u, FirstIndex(u, "?") + 1, Len(u))
        ELSE <<>>

\* The key=value pairs of a query, in order; empty segments are skipped.
QueryPairs(q) ==
    LET segs == SelectSeq(Split(q, "&"), LAMBDA g : g # <<>>)
    IN  [i \in 1..Len(segs) |->
            IF Contains(segs[i], "=")
            THEN [key |-> SubSeq(segs[i], 1, FirstIndex(segs[i], "=") - 1),
                  val |-> SubSeq(segs[i], FirstIndex(segs[i], "=") + 1,
                                 Len(segs[i]))]
            ELSE [key |-> segs[i], val |-> <<>>]]

\* parsed.Query().Get(k): the first value of key k, empty when absent.
QueryGet(s, k) ==
    LET ps == QueryPairs(RawQuery(s))
        hits == {i \in 1..Len(ps) : ps[i].key = <<k>>}
    IN  IF hits = {} THEN <<>>
        ELSE ps[CHOOSE i \in hits : \A j \in hits : i <= j].val

\* extractCodeAndState that leaves the backslashes in.
extractCodeAndState_KeepEscapes(input) ==
    LET t == TrimSpace(input)
    IN  IF (Contains(t, "?") \/ Contains(t, "&")) /\ ParseOK(t)
        THEN [code |-> QueryGet(t, "code"), state |-> QueryGet(t, "state")]
        ELSE [code |-> t, state |-> <<>>]

\* extractCodeAndState
extractCodeAndState(input) ==
    LET t == StripBackslashes(TrimSpace(input))
    IN  IF (Contains(t, "?") \/ Contains(t, "&")) /\ ParseOK(t)
        THEN [code |-> QueryGet(t, "code"), state |-> QueryGet(t, "state")]
        ELSE [code |-> t, state |-> <<>>]

\* What GenerateState may return.
GeneratedStates == {"s1", "s2"}

CallbackURL == "http://localhost:8089/callback"

\* Values of --auth-url: the redirect URL with the state of either login, with
\* no state, with an empty state, with no code, shell-escaped, padded, a bare
\* code, and text url.Parse rejects.
PastedInputs ==
    {<<CallbackURL, "?", "code", "=", "abc", "&", "state", "=", st>> :
        st \in GeneratedStates}
    \cup
    {<<CallbackURL, "?", "code", "=", "abc">>,
     <<CallbackURL, "?", "code", "=", "abc", "&", "state", "=">>,
     <<CallbackURL, "?", "state", "=", "s1">>,
     <<CallbackURL, "\\", "?", "code", "=", "abc", "\\", "&", "state", "=",
       "s1">>,
     <<" ", CallbackURL, "?", "state", "=", "s2", "&", "code", "=", "xyz",
       " ">>,
     <<"abc">>,
     <<"abc", "<ctl>", "&", "state", "=", "s1">>}

\* CompleteRemoteLogin with the state check left to "non-empty".
StateError_NoMismatchCheck(expected, got) ==
    IF expected # "" /\ got = <<>> THEN "no state parameter" ELSE ""

\* The state validation of CompleteRemoteLogin: the error, "" when it passes.
StateError(expected, got) ==
    IF expected # ""
    THEN IF got = <<>> THEN "no state parameter"
         ELSE IF got # <<expected>> THEN "state mismatch"
         ELSE ""
    ELSE ""

\* auth.CompleteRemoteLogin up to the exchange: the error that ends it before
\* any request is made, "" when the code goes to the token endpoint.
ValidationError(expectedState, x) ==
    IF StateError(expectedState, x.state) # ""
    THEN StateError(expectedState, x.state)
    ELSE IF x.code = <<>> THEN "no authorization code"
    ELSE ""

\* auth.CompleteRemoteLogin when the token endpoint would answer tr: the
\* error, the tokens and the POSTs made.
CompleteRemoteLogin(expectedState, pastedInput, tr) ==
    LET x == extractCodeAndState(pastedInput)
        v == ValidationError(expectedState, x)
    IN  IF v # ""
        THEN [err |-> v, tokens |-> NoTokens, posts |-> <<>>]
        ELSE [err |-> exchangeCode(x.code, tr).err,
              tokens |-> exchangeCode(x.code, tr).tokens,
              posts |-> <<CodeForm(x.code)>>]

\* PendingExpired for a PendingAuth that never expires.
PendingExpired_Never(now, pending) == FALSE

\* completeRemoteLogin's test of the stored expiry at Unix time now.
PendingExpired(now, pending) == now > pending.expires

\* The answers of the token endpoint that matter to a step 2 on Config c:
\* one stands for all when the login ends before the exchange.
AnswersFor(c, pasted, now) ==
    IF c.pending = None \/ PendingExpired(now, c.pending)
       \/ ValidationError(c.pending.state, extractCodeAndState(pasted)) # ""
    THEN {CHOOSE tr \in TokenResponses(now) : tr.kind = "neterr"}
    ELSE TokenResponses(now)

NoCmd ==
    [name |-> "none", pasted |-> <<>>, err |-> "", found |-> FALSE,
     diskBefore |-> EmptyConfig, callsBefore |-> 0, got |-> <<>>,
     saved |-> "", repeat |-> FALSE]

\* The record of a command that ran on file d.
Cmd(name, pasted, err, found, d, got, saved) ==
    [name |-> name, pasted |-> pasted, err |-> err, found |-> found,
     diskBefore |-> d, callsBefore |-> Len(tokenCalls), got |-> got,
     saved |-> saved,
     repeat |-> /\ name = "step2"
                /\ lastCmd.name = "step2"
                /\ lastCmd.found
                /\ lastCmd.saved # "err"
                /\ lastCmd.saved # "partial"
                /\ lastCmd.pasted = pasted]

\* NewPending with an expiry that has no lifetime.
NewPending_NoLifetime(gs, now) ==
    [state |-> gs, redirect |-> CallbackURL, expires |-> now]

\* The PendingAuth startRemoteLogin stores at Unix time now for state gs.
NewPending(gs, now) ==
    [state |-> gs, redirect |-> CallbackURL, expires |-> now + pendingTTL]

\* `strava auth login --remote`: runAuthLogin and startRemoteLogin.
StartRemoteLogin ==
    /\ cmds < MaxCommands
    /\ cmds' = cmds + 1
    /\ \E gs \in GeneratedStates \cup {""}, so \in SaveOutcomes :
          IF Load(disk).err # ""
          THEN /\ lastCmd' = Cmd("step1", <<>>, "load config", FALSE, disk,
                                 <<>>, "")
               /\ UNCHANGED <<cfg, disk>>
          ELSE IF gs = ""
          THEN /\ lastCmd' = Cmd("step1", <<>>, "generate state", FALSE, disk,
                                 <<>>, "")
               /\ cfg' = Load(disk).cfg
               /\ UNCHANGED disk
          ELSE /\ cfg' = [Load(disk).cfg EXCEPT
                            !.pending = NewPending(gs, Unix(nowMs))]
               /\ disk' = Save(cfg', disk, so)
               /\ lastCmd' = Cmd("step1", <<>>,
                                 IF so = "ok" THEN "" ELSE "save pending state",
                                 FALSE, disk, <<>>, so)
    /\ UNCHANGED <<tokenCalls, lastRefresh, endpoint, nowMs, tripVars,
                   pollVars, gate>>
    /\ UNCHANGED localVars

\* `strava auth login --auth-url <pasted>`: runAuthLogin and
\* completeRemoteLogin.
CompleteLogin ==
    /\ cmds < MaxCommands
    /\ cmds' = cmds + 1
    /\ \E pasted \in PastedInputs :
       \E tr \in AnswersFor(Load(disk).cfg, pasted, Unix(nowMs)),
          so \in SaveOutcomes :
          LET c == Load(disk).cfg
              x == extractCodeAndState(pasted)
          IN  IF Load(disk).err # ""
              THEN /\ lastCmd' = Cmd("step2", pasted, "load config", FALSE,
                                     disk, <<>>, "")
                   /\ UNCHANGED <<cfg, disk, tokenCalls>>
              ELSE IF c.pending = None
              THEN /\ lastCmd' = Cmd("step2", pasted, "no pending login found",
                                     FALSE, disk, <<>>, "")
                   /\ cfg' = c
                   /\ UNCHANGED <<disk, tokenCalls>>
              ELSE IF PendingExpired(Unix(nowMs), c.pending)
              THEN /\ cfg' = [c EXCEPT !.pending = None]
                   /\ disk' = Save(cfg', disk, so)
                   /\ lastCmd' = Cmd("step2", pasted, "auth URL expired", TRUE,
                                     disk, x.state, so)
                   /\ UNCHANGED tokenCalls
              ELSE LET r == CompleteRemoteLogin(c.pending.state, pasted, tr)
                   IN  /\ tokenCalls' = tokenCalls \o r.posts
                       /\ IF r.err # ""
                          THEN /\ cfg' = c
                               /\ UNCHANGED disk
                               /\ lastCmd' = Cmd("step2", pasted, r.err, TRUE,
                                                 disk, x.state, "")
                          ELSE /\ cfg' = [c EXCEPT !.tokens = r.tokens,
                                                  !.pending = None]
                               /\ disk' = Save(cfg', disk, so)
                               /\ lastCmd' = Cmd("step2", pasted,
                                                 IF so = "ok" THEN ""
                                                 ELSE "save config",
                                                 TRUE, disk, x.state, so)
    /\ UNCHANGED <<lastRefresh, endpoint, nowMs, tripVars, pollVars, gate>>
    /\ UNCHANGED localVars

\* Time passes between two commands.
Idle ==
    /\ nowMs + (pendingTTL \div 2) * 1000 <= MaxIdleSec * 1000
    /\ nowMs' = nowMs + (pendingTTL \div 2) * 1000
    /\ UNCHANGED <<storeVars, tripVars, authVars, pollVars>>
    /\ UNCHANGED localVars

----------------------------------------------------------------------------
(* internal/auth: loginManual, and runAuthLogin's use of it *)

\* extractCode that returns the code parameter of every input it parses.
extractCode_ParamOnly(input) ==
    IF (Contains(input, "?") \/ Contains(input, "&")) /\ ParseOK(input)
    THEN QueryGet(input, "code")
    ELSE input

\* extractCode: the code parameter of an input that looks like a URL, parses
\* and has a non-empty one; the whole input otherwise.
extractCode(input) ==
    IF (Contains(input, "?") \/ Contains(input, "&")) /\ ParseOK(input)
       /\ QueryGet(input, "code") # <<>>
    THEN QueryGet(input, "code")
    ELSE input

\* Lines the operator types at the prompt of the manual flow: the values of
\* --auth-url, nothing, blanks, and the redirect URL of a denied consent.
ManualInputs ==
    PastedInputs
    \cup
    {<<>>, <<" ">>,
     <<CallbackURL, "?", "error", "=", "access_denied">>}

\* The answers of the token endpoint that matter to a manual login: one
\* stands for all when the login ends before the exchange.
ManualAnswers(pasted, now) ==
    IF extractCode(TrimSpace(pasted)) = <<>>
    THEN {CHOOSE tr \in TokenResponses(now) : tr.kind = "neterr"}
    ELSE TokenResponses(now)

\* The outcomes of the Save that matter to a manual login answered tr: one
\* stands for all when nothing is saved.
ManualSaves(pasted, tr) ==
    IF exchangeCode(extractCode(TrimSpace(pasted)), tr).err # ""
    THEN {"ok"}
    ELSE SaveOutcomes

\* `strava auth login` with a redirect URI that is not local: runAuthLogin,
\* auth.Login and loginManual.
ManualLogin ==
    /\ cmds < MaxCommands
    /\ cmds' = cmds + 1
    /\ \E pasted \in ManualInputs :
       \E tr \in ManualAnswers(pasted, Unix(nowMs)) :
       \E so \in ManualSaves(pasted, tr) :
          LET c == Load(disk).cfg
              code == extractCode(TrimSpace(pasted))
              r == exchangeCode(code, tr)
          IN  IF Load(disk).err # ""
              THEN /\ lastCmd' = Cmd("manual", pasted, "load config", FALSE,
                                     disk, <<>>, "")
                   /\ UNCHANGED <<cfg, disk, tokenCalls>>
              ELSE IF code = <<>>
              THEN /\ lastCmd' = Cmd("manual", pasted,
                                     "no authorization code found", FALSE,
                                     disk, code, "")
                   /\ cfg' = c
                   /\ UNCHANGED <<disk, tokenCalls>>
              ELSE /\ tokenCalls' = Append(tokenCalls, CodeForm(code))
                   /\ IF r.err # ""
                      THEN /\ cfg' = c
                           /\ UNCHANGED disk
                           /\ lastCmd' = Cmd("manual", pasted, r.err, FALSE,
                                             disk, code, "")
                      ELSE /\ cfg' = [c EXCEPT !.tokens = r.tokens]
                           /\ disk' = Save(cfg', disk, so)
                           /\ lastCmd' = Cmd("manual", pasted,
                                             IF so = "ok" THEN ""
                                             ELSE "save config",
                                             FALSE, disk, code, so)
    /\ UNCHANGED <<lastRefresh, endpoint, nowMs, tripVars, pollVars, gate>>
    /\ UNCHANGED localVars

----------------------------------------------------------------------------
(* internal/auth: loginLocal, and runAuthLogin's use of it *)

\* The query of a callback request: a code, neither code nor error, or an
\* error.
CallbackKinds == {"code", "nocode", "error"}

NoHandler == [st |-> "none", kind |-> ""]

NoLocalResult == [kind |-> "none", msg |-> "", code |-> <<>>, answer |-> None]

\* No local login is running.
LocalOff ==
    /\ lpc = "off"
    /\ listening = FALSE
    /\ handlers = [i \in 1..MaxCallbacks |-> NoHandler]
    /\ codeCh = <<>>
    /\ errCh = <<>>
    /\ serve = "off"
    /\ localResult = NoLocalResult

\* What the handler of a request of kind k sends on codeCh.
CodeOf(k) == IF k = "code" THEN <<"abc">> ELSE <<>>

\* `strava auth login` with a localhost redirect URI: runAuthLogin up to
\* auth.Login, and loginLocal up to its select. net.Listen may fail.
LocalStart ==
    /\ lpc = "off"
    /\ cfg' = Load(disk).cfg
    /\ \E bound \in BOOLEAN :
          IF Load(disk).err # ""
          THEN /\ lpc' = "done"
               /\ localResult' = [NoLocalResult EXCEPT !.kind = "err",
                                                       !.msg = "load config"]
               /\ UNCHANGED <<listening, serve>>
          ELSE IF ~bound
          THEN /\ lpc' = "done"
               /\ localResult' =
                     [NoLocalResult EXCEPT !.kind = "err",
                                           !.msg = "start callback server"]
               /\ UNCHANGED <<listening, serve>>
          ELSE /\ lpc' = "select"
               /\ listening' = TRUE
               /\ serve' = "run"
               /\ UNCHANGED localResult
    /\ UNCHANGED <<disk, tokenCalls, lastRefresh, endpoint, nowMs, tripVars,
                   authVars, pollVars, handlers, codeCh, errCh>>

\* The server accepts callback request i and starts its handler.
Arrive(i) ==
    /\ listening
    /\ handlers[i].st = "none"
    /\ IF i = 1 THEN TRUE ELSE handlers[i - 1].st # "none"
    /\ \E k \in CallbackKinds :
          handlers' = [handlers EXCEPT ![i] = [st |-> "send", kind |-> k]]
    /\ UNCHANGED <<storeVars, nowMs, tripVars, authVars, pollVars, lpc,
                   listening, codeCh, errCh, serve, localResult>>

\* HandlerSend that does not wait for room in the channel.
HandlerSend_NonBlocking(i) ==
    /\ handlers[i].st = "send"
    /\ handlers' = [handlers EXCEPT ![i].st = "done"]
    /\ IF handlers[i].kind = "error"
       THEN /\ errCh' = IF Len(errCh) < chanCap
                        THEN Append(errCh, "authorization denied")
                        ELSE errCh
            /\ UNCHANGED codeCh
       ELSE /\ codeCh' = IF Len(codeCh) < chanCap
                         THEN Append(codeCh, CodeOf(handlers[i].kind))
                         ELSE codeCh
            /\ UNCHANGED errCh
    /\ UNCHANGED <<storeVars, nowMs, tripVars, authVars, pollVars, lpc,
                   listening, serve, localResult>>

\* The handler of request i sends on errCh or on codeCh, once the channel has
\* room, and writes its page.
HandlerSend(i) ==
    /\ handlers[i].st = "send"
    /\ handlers' = [handlers EXCEPT ![i].st = "done"]
    /\ IF handlers[i].kind = "error"
       THEN /\ Len(errCh) < chanCap
            /\ errCh' = Append(errCh, "authorization denied")
            /\ UNCHANGED codeCh
       ELSE /\ Len(codeCh) < chanCap
            /\ codeCh' = Append(codeCh, CodeOf(handlers[i].kind))
            /\ UNCHANGED errCh
    /\ UNCHANGED <<storeVars, nowMs, tripVars, authVars, pollVars, lpc,
                   listening, serve, localResult>>

\* srv.Serve returns an error other than ErrServerClosed.
ServeFail ==
    /\ serve = "run"
    /\ listening
    /\ serve' = "send"
    /\ listening' = FALSE
    /\ UNCHANGED <<storeVars, nowMs, tripVars, authVars, pollVars, lpc,
                   handlers, codeCh, errCh, localResult>>

\* The Serve goroutine sends that error on errCh, once it has room.
ServeSend ==
    /\ serve = "send"
    /\ Len(errCh) < chanCap
    /\ errCh' = Append(errCh, "serve")
    /\ serve' = "done"
    /\ UNCHANGED <<storeVars, nowMs, tripVars, authVars, pollVars, lpc,
                   listening, handlers, codeCh, localResult>>

\* The select receives a code.
LocalRecvCode ==
    /\ lpc = "select"
    /\ codeCh # <<>>
    /\ codeCh' = Tail(codeCh)
    /\ localResult' = [NoLocalResult EXCEPT !.kind = "code",
                                            !.code = Head(codeCh)]
    /\ lpc' = "shutdown"
    /\ UNCHANGED <<storeVars, nowMs, tripVars, authVars, pollVars, listening,
                   handlers, errCh, serve>>

\* The select receives an error.
LocalRecvErr ==
    /\ lpc = "select"
    /\ errCh # <<>>
    /\ errCh' = Tail(errCh)
    /\ localResult' = [NoLocalResult EXCEPT !.kind = "err",
                                            !.msg = Head(errCh)]
    /\ lpc' = "shutdown"
    /\ UNCHANGED <<storeVars, nowMs, tripVars, authVars, pollVars, listening,
                   handlers, codeCh, serve>>

\* The select receives from time.After.
LocalTimeout ==
    /\ lpc = "select"
    /\ nowMs' = nowMs + loginTimeout
    /\ localResult' = [NoLocalResult EXCEPT !.kind = "err",
                                            !.msg = "authorization timed out"]
    /\ lpc' = "shutdown"
    /\ UNCHANGED <<storeVars, tripVars, authVars, pollVars, listening,
                   handlers, codeCh, errCh, serve>>

\* srv.Shutdown(context.Background()), first part: the listener is closed and
\* Serve returns ErrServerClosed.
ShutdownBegin ==
    /\ lpc = "shutdown"
    /\ lpc' = "drain"
    /\ listening' = FALSE
    /\ serve' = IF serve = "run" THEN "done" ELSE serve
    /\ UNCHANGED <<storeVars, nowMs, tripVars, authVars, pollVars, handlers,
                   codeCh, errCh, localResult>>

\* srv.Shutdown, second part: it returns once no connection is serving a
\* request, and loginLocal returns its error or goes on to the exchange.
ShutdownEnd ==
    /\ lpc = "drain"
    /\ \A i \in 1..MaxCallbacks : handlers[i].st # "send"
    /\ lpc' = IF localResult.kind = "code" THEN "exchange" ELSE "done"
    /\ UNCHANGED <<storeVars, nowMs, tripVars, authVars, pollVars, listening,
                   handlers, codeCh, errCh, serve, localResult>>

\* exchangeCode with the code received, and the rest of runAuthLogin.
\* http.PostForm sets no deadline: on an endpoint that never answers the POST
\* does not return.
LocalExchange ==
    /\ lpc = "exchange"
    /\ tokenCalls' = Append(tokenCalls, CodeForm(localResult.code))
    /\ IF endpoint = "silent"
       THEN /\ lpc' = "tokenwait"
            /\ UNCHANGED <<cfg, disk, localResult>>
       ELSE /\ lpc' = "done"
            /\ \E tr \in TokenResponses(Unix(nowMs)), so \in SaveOutcomes :
                  LET r == exchangeCode(localResult.code, tr)
                  IN  IF r.err # ""
                      THEN /\ localResult' =
                                 [localResult EXCEPT !.kind = "err",
                                                     !.msg = r.err,
                                                     !.answer = tr]
                           /\ UNCHANGED <<cfg, disk>>
                      ELSE /\ cfg' = [cfg EXCEPT !.tokens = r.tokens]
                           /\ disk' = Save(cfg', disk, so)
                           /\ localResult' =
                                 [localResult EXCEPT
                                     !.kind = IF so = "ok" THEN "ok"
                                              ELSE "err",
                                     !.msg = IF so = "ok" THEN ""
                                             ELSE "save config",
                                     !.answer = tr]
    /\ UNCHANGED <<lastRefresh, endpoint, nowMs, tripVars, authVars, pollVars,
                   listening, handlers, codeCh, errCh, serve>>

----------------------------------------------------------------------------
(* internal/client: retryTransport.RoundTrip *)

\* The requests a caller may hand to RoundTrip: without a body, with a body
\* and a GetBody function, with a body and no GetBody.
Requests ==
    {[hasBody |-> FALSE, hasGetBody |-> FALSE, payload |-> ""]}
    \cup
    {[hasBody |-> TRUE, hasGetBody |-> g, payload |-> p] :
        g \in BOOLEAN, p \in Payloads}

\* What t.base.RoundTrip may return: a network-level error or a response.
BaseOutcomes ==
    {[kind |-> "neterr", status |-> 0]}
    \cup {[kind |-> "resp", status |-> s] : s \in Statuses}

\* What t.base.RoundTrip may return for a request whose context is done or
\* not: a done context is reported as an error.
BaseResults(done) ==
    IF done THEN {[kind |-> "neterr", status |-> 0]} ELSE BaseOutcomes

\* Results of RoundTrip; NoResult while it has not returned.
NoResult == [kind |-> "none", msg |-> "", status |-> 0, retries |-> 0]

Response(status) ==
    [kind |-> "resp", msg |-> "", status |-> status, retries |-> 0]

Failure(msg) == [kind |-> "err", msg |-> msg, status |-> 0, retries |-> 0]

Exhausted(status) ==
    [kind |-> "err", msg |-> "HTTP after retries", status |-> status,
     retries |-> maxRetries]

\* ShouldRetry with the rate-limit status forgotten.
ShouldRetry_ServerErrorsOnly(status) == status >= 500

\* The statuses RoundTrip retries.
ShouldRetry(status) == status = StatusTooManyRequests \/ status >= 500

\* Classify with a network error treated like a retried status.
Classify_RetryNetErr(out, n) ==
    IF out.kind = "neterr" \/ out.status = StatusTooManyRequests \/ out.status >= 500
    THEN IF n = maxRetries THEN "exhausted" ELSE "retry"
    ELSE "return"

\* What RoundTrip does with the outcome of attempt n: "fail" on a network
\* error, "retry" or "exhausted" on a retried status, "return" otherwise.
Classify(out, n) ==
    IF out.kind = "neterr" THEN "fail"
    ELSE IF ShouldRetry(out.status)
    THEN IF n = maxRetries THEN "exhausted" ELSE "retry"
    ELSE "return"

\* BackoffWait that grows by one base per retry.
BackoffWait_Linear(n) == n * baseBackoff

\* The sleep before retry attempt n >= 1, ms.
BackoffWait(n) == (2 ^ (n - 1)) * baseBackoff

\* AuthHeader with the token captured when the client was built.
AuthHeader_Cached(c) == <<"Bearer", "tokA">>

\* The Authorization header set on the clone of an attempt.
AuthHeader(c) == <<"Bearer", c.tokens.access>>

\* ResetsBody with the reset left out.
ResetsBody_Never(n, r) == FALSE

\* Whether the attempt replaces the clone's body by a fresh req.GetBody().
ResetsBody(n, r) == n > 0 /\ r.hasGetBody

\* The bytes the server is sent by an attempt whose clone shares req.Body in
\* state stream: the whole payload of a fresh stream, nothing of a consumed.
StreamBytes(r, stream) ==
    CASE stream = "none" -> "<nobody>"
      [] stream = "fresh" -> r.payload
      [] OTHER -> ""

\* req.Body after an attempt that read the shared stream.
Drained(stream) == IF stream = "fresh" THEN "consumed" ELSE stream

\* CheckFresh that goes on to the attempt whatever RefreshIfExpired returns.
CheckFresh_IgnoreError(at, tr, so) ==
    LET r == RefreshIfExpired(cfg, disk, Unix(at), tr, so)
    IN  /\ cfg' = r.cfg
        /\ disk' = r.disk
        /\ tokenCalls' = tokenCalls \o r.posts
        /\ lastRefresh' = [atMs |-> at, before |-> cfg.tokens,
                           diskBefore |-> disk, callsBefore |-> Len(tokenCalls),
                           answer |-> IF r.posts = <<>> THEN None ELSE tr,
                           saved |-> IF r.posts = <<>> THEN "" ELSE so,
                           err |-> r.err]
        /\ nowMs' = at
        /\ pc' = "send"
        /\ result' = result
        /\ UNCHANGED endpoint

\* One RefreshIfExpired call made by RoundTrip at clock time at: cfg, the
\* file, the token endpoint's log, the clock and the record of the call; an
\* error ends RoundTrip. The call is made on RoundTrip's own goroutine and
\* its POST goes through http.PostForm, which sets no deadline: on an
\* endpoint that never answers, neither returns.
CheckFresh(at, tr, so) ==
    LET r == RefreshIfExpired(cfg, disk, Unix(at), tr, so)
    IN  IF endpoint = "silent" /\ r.posts # <<>>
        THEN /\ tokenCalls' = tokenCalls \o r.posts
             /\ lastRefresh' = [atMs |-> at, before |-> cfg.tokens,
                                diskBefore |-> disk,
                                callsBefore |-> Len(tokenCalls),
                                answer |-> None, saved |-> "",
                                err |-> "<no return>"]
             /\ nowMs' = at
             /\ pc' = "tokenwait"
             /\ UNCHANGED <<cfg, disk, result, endpoint>>
        ELSE /\ cfg' = r.cfg
             /\ disk' = r.disk
             /\ tokenCalls' = tokenCalls \o r.posts
             /\ lastRefresh' = [atMs |-> at, before |-> cfg.tokens,
                                diskBefore |-> disk,
                                callsBefore |-> Len(tokenCalls),
                                answer |-> IF r.posts = <<>> THEN None ELSE tr,
                                saved |-> IF r.posts = <<>> THEN "" ELSE so,
                                err |-> r.err]
             /\ nowMs' = at
             /\ IF r.err # ""
                THEN pc' = "done" /\ result' = Failure(r.err)
                ELSE pc' = "send" /\ result' = result
             /\ UNCHANGED endpoint

\* RoundTrip(r) called at clock time at, entry to the loop: the freshness
\* check before attempt 0.
RoundTripBegin(r, at) ==
    /\ pc = "idle"
    /\ req' = r
    /\ bodyStream' = IF r.hasBody THEN "fresh" ELSE "none"
    /\ \E tr \in RefreshAnswers(cfg, Unix(at)),
          so \in RefreshSaves(cfg, Unix(at)) :
          CheckFresh(at, tr, so)
    /\ attempt' = 0
    /\ sent' = <<>>
    /\ slept' = <<>>
    /\ checks' = 1
    /\ UNCHANGED localVars

\* A command hands one API request to the client.
RoundTripStart ==
    /\ ppc = "off"
    /\ \E r \in Requests : RoundTripBegin(r, nowMs)
    /\ UNCHANGED <<authVars, pollVars>>

\* RetryWait without the second freshness check.
RetryWait_NoRecheck ==
    /\ pc = "retry"
    /\ attempt > 0
    /\ nowMs' = nowMs + BackoffWait(attempt)
    /\ pc' = "send"
    /\ slept' = Append(slept, BackoffWait(attempt))
    /\ UNCHANGED <<cfg, disk, tokenCalls, lastRefresh, endpoint, checks,
                   result, req, attempt, bodyStream, sent, authVars, pollVars>>
    /\ UNCHANGED localVars

\* RoundTrip, the head of a retry iteration: sleep, then check freshness again.
RetryWait ==
    /\ pc = "retry"
    /\ attempt > 0
    /\ LET woke == nowMs + BackoffWait(attempt)
       IN  \E tr \in RefreshAnswers(cfg, Unix(woke)),
              so \in RefreshSaves(cfg, Unix(woke)) :
              CheckFresh(woke, tr, so)
    /\ checks' = checks + 1
    /\ slept' = Append(slept, BackoffWait(attempt))
    /\ UNCHANGED <<req, attempt, bodyStream, sent, authVars, pollVars>>
    /\ UNCHANGED localVars

\* RoundTrip, the rest of an iteration: clone the request, set the header,
\* reset the body on a retry, send, and return or go round again.
SendAttempt ==
    /\ pc = "send"
    /\ \E gb \in {"ok", "err"}, out \in BaseResults(cancelled),
          lat \in Latencies :
          IF ResetsBody(attempt, req) /\ gb = "err"
          THEN /\ pc' = "done"
               /\ result' = Failure("reset request body for retry")
               /\ UNCHANGED <<attempt, bodyStream, sent, nowMs>>
          ELSE /\ sent' = Append(sent,
                          [auth |-> AuthHeader(cfg),
                           body |-> IF ResetsBody(attempt, req)
                                    THEN req.payload
                                    ELSE StreamBytes(req, bodyStream),
                           out |-> out, atMs |-> nowMs + lat])
               /\ bodyStream' = IF ResetsBody(attempt, req)
                                THEN bodyStream
                                ELSE Drained(bodyStream)
               /\ nowMs' = nowMs + lat
               /\ pc' = IF Classify(out, attempt) = "retry"
                        THEN "retry" ELSE "done"
               /\ attempt' = IF Classify(out, attempt) = "retry"
                             THEN attempt + 1 ELSE attempt
               /\ result' = CASE Classify(out, attempt) = "fail" ->
                                    Failure("request failed")
                               [] Classify(out, attempt) = "exhausted" ->
                                    Exhausted(out.status)
                               [] Classify(out, attempt) = "retry" -> result
                               [] OTHER -> Response(out.status)
    /\ UNCHANGED <<storeVars, req, checks, slept, authVars, pollVars>>
    /\ UNCHANGED localVars

----------------------------------------------------------------------------
(* cmd: the write commands and their confirmation gate *)

WriteCommands == {"update", "upload"}

\* What the operator types at the prompt, as fmt.Fscanln stores it.
Answers == {"y", "Y", "n", "yes", ""}

\* strings.ToLower
ToLower(a) ==
    CASE a = "Y" -> "y"
      [] a = "N" -> "n"
      [] OTHER -> a

NoGate ==
    [cmd |-> "none", dryRun |-> FALSE, yes |-> FALSE, asked |-> FALSE,
     ans |-> "", st |-> "off"]

\* confirmMutation with --yes looked at before --dry-run.
confirmMutation_YesFirst(dryRun, yes, ans) ==
    IF yes THEN TRUE
    ELSE IF dryRun THEN FALSE
    ELSE ToLower(ans) = "y"

\* confirmMutation: whether the command may proceed.
confirmMutation(dryRun, yes, ans) ==
    IF dryRun THEN FALSE
    ELSE IF yes THEN TRUE
    ELSE ToLower(ans) = "y"

\* The request a write command builds: PUT /activities/{id} from a
\* bytes.Reader, POST /uploads from a bytes.Buffer; both get a GetBody.
WriteRequestOf(c) == [hasBody |-> TRUE, hasGetBody |-> TRUE, payload |-> "p1"]

\* runActivitiesUpdate or runActivitiesUpload up to the return of
\* confirmMutation; the prompt is read only without --dry-run and --yes.
WriteCommand ==
    /\ gate.st = "off"
    /\ pc = "idle"
    /\ \E c \in WriteCommands, dryRun \in BOOLEAN, yes \in BOOLEAN,
          ans \in Answers :
          /\ (dryRun \/ yes) => ans = ""
          /\ gate' = [cmd |-> c, dryRun |-> dryRun, yes |-> yes,
                      asked |-> ~dryRun /\ ~yes, ans |-> ans,
                      st |-> IF confirmMutation(dryRun, yes, ans)
                             THEN "proceed" ELSE "returned"]
    /\ UNCHANGED <<storeVars, nowMs, tripVars, lastCmd, cmds, pollVars>>
    /\ UNCHANGED localVars

\* The rest of the command up to httpClient.Do: the body is built (the file
\* to upload may not open), rawClient loads the config (which may fail), and
\* the request is handed to the client.
WriteRequest ==
    /\ gate.st = "proceed"
    /\ \E prepared \in BOOLEAN :
          IF prepared /\ Load(disk).err = ""
          THEN /\ gate' = [gate EXCEPT !.st = "requested"]
               /\ RoundTripBegin(WriteRequestOf(gate.cmd), nowMs)
               /\ UNCHANGED <<lastCmd, cmds, pollVars>>
          ELSE /\ gate' = [gate EXCEPT !.st = "returned"]
               /\ UNCHANGED <<storeVars, nowMs, tripVars, lastCmd, cmds,
                              pollVars>>
               /\ UNCHANGED localVars

----------------------------------------------------------------------------
(* cmd/uploads.go: pollUpload *)

\* fetchUploadStatus requests GET /uploads/{id}: no body.
StatusRequest == [hasBody |-> FALSE, hasGetBody |-> FALSE, payload |-> ""]

\* Markup in the error text of an upload.
Tags == {"<a href='/activities/1'>", "</a>"}

IsNotTag(x) == x \notin Tags

\* stripHTML
stripHTML(s) == TrimSpace(SelectSeq(s, IsNotTag))

\* Bodies of a 200 answer of GET /uploads/{id}: an uploadStatus whose error
\* and activity_id are null (<<>>) or present (<<v>>), or text that is no JSON.
Unparsable == [error |-> <<>>, activity |-> <<>>, json |-> FALSE]

StatusBodies ==
    {Unparsable}
    \cup
    {[error |-> e, activity |-> a, json |-> TRUE] :
        e \in {<<>>, <<<<>>>>,
               <<<<"duplicate of ", "<a href='/activities/1'>", "activity 1",
                   "</a>", " ">>>>},
        a \in {<<>>, <<555>>}}

\* The bodies that matter to a fetch whose round trip returned res: one
\* stands for all when the body is not decoded.
BodiesFor(res) ==
    IF res.kind = "err" \/ res.status # StatusOK
    THEN {Unparsable}
    ELSE StatusBodies

\* FetchError that does not look at the status.
FetchError_AnyStatus(res, body) ==
    IF res.kind = "err" THEN res.msg
    ELSE IF ~body.json THEN "parse response"
    ELSE ""

\* The error fetchUploadStatus returns for a round trip that returned res
\* with body body, "" when it returns the decoded status.
FetchError(res, body) ==
    IF res.kind = "err" THEN res.msg
    ELSE IF res.status # StatusOK THEN "HTTP"
    ELSE IF ~body.json THEN "parse response"
    ELSE ""

NoPollResult == [kind |-> "none", msg |-> <<>>, activity |-> <<>>]

\* The text of the error pollUpload returns past its deadline.
TimeoutText ==
    <<"upload timed out after ", "5m0s",
      "; check status with: strava uploads get ", "id">>

PollReturn(kind, msg, activity) ==
    [kind |-> kind, msg |-> msg, activity |-> activity]

\* The tick after the one due at next, for a receive at time at: ticks that
\* fall due while one waits in the channel are dropped.
TickAfter(next, at) ==
    IF at < next THEN next
    ELSE next + ((at - next) \div pollInterval + 1) * pollInterval

\* Verdict without the deadline.
Verdict_NoDeadline(u, now, deadline) ==
    IF u.error # <<>> THEN "failed"
    ELSE IF u.activity # <<>> THEN "success"
    ELSE "pending"

\* pollUpload's verdict on a decoded uploadStatus u at clock time now.
Verdict(u, now, deadline) ==
    IF u.error # <<>> THEN "failed"
    ELSE IF u.activity # <<>> THEN "success"
    ELSE IF now > deadline THEN "timeout"
    ELSE "pending"

\* PollStart with a ticker whose first tick is due at once.
PollStart_TickAtOnce ==
    /\ ppc = "off"
    /\ pc = "idle"
    /\ ppc' = "select"
    /\ pollStartMs' = nowMs
    /\ nextTickMs' = nowMs
    /\ UNCHANGED <<storeVars, nowMs, tripVars, authVars, cancelled, fetches,
                   lastJob, pollResult>>
    /\ UNCHANGED localVars

\* pollUpload up to its loop: the deadline and the ticker.
PollStart ==
    /\ ppc = "off"
    /\ pc = "idle"
    /\ ppc' = "select"
    /\ pollStartMs' = nowMs
    /\ nextTickMs' = nowMs + pollInterval
    /\ UNCHANGED <<storeVars, nowMs, tripVars, authVars, cancelled, fetches,
                   lastJob, pollResult>>
    /\ UNCHANGED localVars

\* The select receives from cmd.Context().Done().
PollCancelled ==
    /\ ppc = "select"
    /\ cancelled
    /\ ppc' = "done"
    /\ pollResult' = PollReturn("cancelled", <<>>, <<>>)
    /\ UNCHANGED <<storeVars, nowMs, tripVars, authVars, cancelled,
                   pollStartMs, nextTickMs, fetches, lastJob>>
    /\ UNCHANGED localVars

\* The select receives a tick, at once when one is waiting and else when the
\* next falls due, and fetchUploadStatus hands its request to the client.
PollTick ==
    /\ ppc = "select"
    /\ ~cancelled \/ nextTickMs <= nowMs
    /\ LET at == IF nowMs < nextTickMs THEN nextTickMs ELSE nowMs
       IN  /\ fetches < MaxFetches \/ at > pollStartMs + timeout
           /\ RoundTripBegin(StatusRequest, at)
           /\ nextTickMs' = TickAfter(nextTickMs, at)
    /\ ppc' = "fetch"
    /\ fetches' = IF fetches < MaxFetches THEN fetches + 1 ELSE fetches
    /\ UNCHANGED <<authVars, cancelled, pollStartMs, lastJob, pollResult>>

\* The client returns: the rest of fetchUploadStatus and of the tick's case.
\* The request and its response do not outlive the iteration.
PollHandle ==
    /\ ppc = "fetch"
    /\ pc = "done"
    /\ pc' = "idle"
    /\ req' = StatusRequest
    /\ attempt' = 0
    /\ sent' = <<>>
    /\ checks' = 0
    /\ slept' = <<>>
    /\ result' = NoResult
    /\ \E body \in BodiesFor(result) :
          IF FetchError(result, body) # ""
          THEN /\ pollResult' = PollReturn("fetcherr",
                                          <<FetchError(result, body)>>, <<>>)
               /\ lastJob' = None
               /\ ppc' = "done"
          ELSE /\ lastJob' = body
               /\ LET v == Verdict(body, nowMs, pollStartMs + timeout)
                  IN  /\ ppc' = IF v = "pending" THEN "select" ELSE "done"
                      /\ pollResult' =
                            CASE v = "failed" ->
                                   PollReturn("failed",
                                              stripHTML(body.error[1]), <<>>)
                              [] v = "success" ->
                                   PollReturn("success", <<>>, body.activity)
                              [] v = "timeout" ->
                                   PollReturn("timeout", TimeoutText, <<>>)
                              [] OTHER -> pollResult
    /\ UNCHANGED <<storeVars, nowMs, bodyStream, authVars, cancelled,
                   pollStartMs, nextTickMs, fetches>>
    /\ UNCHANGED localVars

\* The operator interrupts the command.
Cancel ==
    /\ ppc \in {"select", "fetch"}
    /\ ~cancelled
    /\ cancelled' = TRUE
    /\ UNCHANGED <<storeVars, nowMs, tripVars, authVars, ppc, pollStartMs,
                   nextTickMs, fetches, lastJob, pollResult>>
    /\ UNCHANGED localVars

\* The process is not scheduled for half the poll deadline.
Stall ==
    /\ ppc = "select"
    /\ nowMs <= pollStartMs + timeout
    /\ nowMs' = nowMs + timeout \div 2
    /\ UNCHANGED <<storeVars, tripVars, authVars, pollVars>>
    /\ UNCHANGED localVars

----------------------------------------------------------------------------
(* The transport specification: one command that makes one API request *)

\* Expiry times of the token the command loaded, around the refresh buffer of
\* the start time and of the times the retries run at.
InitExpiries ==
    {0, refreshBuffer, refreshBuffer + 1, refreshBuffer + 2,
     refreshBuffer + 4, refreshBuffer + 3600}

InitTokens ==
    {NoTokens}
    \cup {[access |-> "", refresh |-> "r0", expires |-> e] :
            e \in {0, refreshBuffer + 3600}}
    \cup {[access |-> "tokA", refresh |-> "r0", expires |-> e] :
            e \in InitExpiries}

Init ==
    /\ \E t \in InitTokens : cfg = Config(t, None)
    /\ disk = cfg
    /\ nowMs = 0
    /\ tokenCalls = <<>>
    /\ lastRefresh = None
    /\ pc = "idle"
    /\ req = [hasBody |-> FALSE, hasGetBody |-> FALSE, payload |-> ""]
    /\ attempt = 0
    /\ bodyStream = "none"
    /\ sent = <<>>
    /\ checks = 0
    /\ slept = <<>>
    /\ result = NoResult
    /\ lastCmd = NoCmd
    /\ cmds = 0
    /\ ppc = "off"
    /\ cancelled = FALSE
    /\ pollStartMs = 0
    /\ nextTickMs = 0
    /\ fetches = 0
    /\ lastJob = None
    /\ pollResult = NoPollResult
    /\ LocalOff
    /\ endpoint = "up"
    /\ gate = NoGate

Next ==
    \/ RoundTripStart
    \/ RetryWait
    \/ SendAttempt

Spec == Init /\ [][Next]_vars

----------------------------------------------------------------------------
(* The write specification: one `activities update` or `activities upload` *)

NextWrite ==
    \/ WriteCommand
    \/ WriteRequest
    \/ RetryWait
    \/ SendAttempt

SpecWrite == Init /\ [][NextWrite]_vars

----------------------------------------------------------------------------
(* The login specification: a series of `auth login` commands *)

\* The file the first command finds: none, or the tokens of an earlier login.
InitAuth ==
    /\ \E t \in {NoTokens, [access |-> "tokA", refresh |-> "r0",
                              expires |-> refreshBuffer + 3600]} :
          disk = Config(t, None)
    /\ cfg = disk
    /\ nowMs = 0
    /\ tokenCalls = <<>>
    /\ lastRefresh = None
    /\ pc = "idle"
    /\ req = [hasBody |-> FALSE, hasGetBody |-> FALSE, payload |-> ""]
    /\ attempt = 0
    /\ bodyStream = "none"
    /\ sent = <<>>
    /\ checks = 0
    /\ slept = <<>>
    /\ result = NoResult
    /\ lastCmd = NoCmd
    /\ cmds = 0
    /\ ppc = "off"
    /\ cancelled = FALSE
    /\ pollStartMs = 0
    /\ nextTickMs = 0
    /\ fetches = 0
    /\ lastJob = None
    /\ pollResult = NoPollResult
    /\ LocalOff
    /\ endpoint = "up"
    /\ gate = NoGate

NextAuth ==
    \/ StartRemoteLogin
    \/ CompleteLogin
    \/ Idle

SpecAuth == InitAuth /\ [][NextAuth]_vars

----------------------------------------------------------------------------
(* The manual login specification: a series of manual-paste logins *)

NextManual == ManualLogin

SpecManual == InitAuth /\ [][NextManual]_vars

----------------------------------------------------------------------------
(* The local login specification: one `auth login` with a localhost redirect *)

NextLocal ==
    \/ LocalStart
    \/ \E i \in 1..MaxCallbacks : Arrive(i)
    \/ \E i \in 1..MaxCallbacks : HandlerSend(i)
    \/ ServeFail
    \/ ServeSend
    \/ LocalRecvCode
    \/ LocalRecvErr
    \/ LocalTimeout
    \/ ShutdownBegin
    \/ ShutdownEnd
    \/ LocalExchange

SpecLocal == InitAuth /\ [][NextLocal]_vars

----------------------------------------------------------------------------
(* The login-then-use specification: a local login, then one API command *)

\* The login command has returned and its process is gone; the next command
\* runs loadAndRefresh and NewHTTPClient on the file the login left.
NextCommand ==
    /\ lpc = "done"
    /\ Load(disk).err = ""
    /\ cfg' = Load(disk).cfg
    /\ lpc' = "exited"
    /\ listening' = FALSE
    /\ handlers' = [i \in 1..MaxCallbacks |-> NoHandler]
    /\ codeCh' = <<>>
    /\ errCh' = <<>>
    /\ serve' = "off"
    /\ localResult' = NoLocalResult
    /\ UNCHANGED <<disk, tokenCalls, lastRefresh, endpoint, nowMs, tripVars,
                   authVars, pollVars>>

\* That command hands its API request to the client.
ApiRequest == lpc = "exited" /\ RoundTripStart

NextLogin ==
    \/ NextLocal
    \/ NextCommand
    \/ ApiRequest
    \/ RetryWait
    \/ SendAttempt

SpecLogin == InitAuth /\ [][NextLogin]_vars

\* The token endpoint stops answering: it still takes connections and
\* requests.
EndpointDown ==
    /\ endpoint = "up"
    /\ endpoint' = "silent"
    /\ UNCHANGED <<cfg, disk, tokenCalls, lastRefresh, nowMs, tripVars,
                   authVars, pollVars, localVars>>

NextCeiling ==
    \/ NextLogin
    \/ EndpointDown

\* Login then use against a token endpoint that may stop answering, with
\* running processes: every step that can be taken is taken in the end.
SpecCeiling == InitAuth /\ [][NextCeiling]_vars /\ WF_vars(NextLogin)

----------------------------------------------------------------------------
(* The poller specification: `activities upload --wait` after its upload *)

\* The upload has just been accepted with a token valid for six hours.
InitPoll ==
    /\ cfg = Config([access |-> "tokA", refresh |-> "r0", expires |-> 21600],
                    None)
    /\ disk = cfg
    /\ nowMs = 0
    /\ tokenCalls = <<>>
    /\ lastRefresh = None
    /\ pc = "idle"
    /\ req = StatusRequest
    /\ attempt = 0
    /\ bodyStream = "none"
    /\ sent = <<>>
    /\ checks = 0
    /\ slept = <<>>
    /\ result = NoResult
    /\ lastCmd = NoCmd
    /\ cmds = 0
    /\ ppc = "off"
    /\ cancelled = FALSE
    /\ pollStartMs = 0
    /\ nextTickMs = 0
    /\ fetches = 0
    /\ lastJob = None
    /\ pollResult = NoPollResult
    /\ LocalOff
    /\ endpoint = "up"
    /\ gate = NoGate

NextPoll ==
    \/ PollStart
    \/ PollTick
    \/ RetryWait
    \/ SendAttempt
    \/ PollHandle
    \/ PollCancelled
    \/ Cancel
    \/ Stall

SpecPoll == InitPoll /\ [][NextPoll]_vars

\* A step of the command itself or of the clock it waits on.
PollStep ==
    \/ PollStart
    \/ PollTick
    \/ RetryWait
    \/ SendAttempt
    \/ PollHandle
    \/ Stall

\* The poller left alone by the operator, with a running process and a
\* running clock: the command is one sequential process that takes its next
\* step whenever it has one, and time passes while it waits.
SpecPollLive == InitPoll /\ [][PollStep]_vars /\ WF_vars(PollStep)

----------------------------------------------------------------------------
(* Properties of retryTransport.RoundTrip and RefreshIfExpired *)

\* A status the transport is specified to retry.
Retryable(status) == status = 429 \/ status >= 500

\* The statuses of the first k attempts were all retried ones.
FirstRetryable(k) ==
    \A i \in 1..k : sent[i].out.kind = "resp" /\ Retryable(sent[i].out.status)

\* RoundTrip has returned what its latest attempt was answered with.
ReturnedFromSend ==
    /\ pc = "done"
    /\ result.kind = "resp" \/ result.msg = "HTTP after retries"

\* C2: RoundTrip never re-sends a body-bearing request with an empty or
\* consumed body: every attempt of a request that carries a body, GetBody or
\* not, delivers the whole payload.
C2_NoEmptyBodyRetry ==
    req.hasBody => \A i \in 1..Len(sent) : sent[i].body = req.payload

\* C4: k retried statuses (k <= 3) followed by another status give exactly
\* k+1 requests and that response; four retried statuses give exactly four
\* requests and an error naming the last status and the retry count; never
\* more than maxRetries + 1 requests.
C4_RetryCount ==
    /\ Len(sent) <= 4
    /\ \A k \in 0..3 :
          (/\ Len(sent) >= k + 1
           /\ FirstRetryable(k)
           /\ sent[k + 1].out.kind = "resp"
           /\ ~Retryable(sent[k + 1].out.status))
          => /\ Len(sent) = k + 1
             /\ pc = "done"
             /\ result = Response(sent[k + 1].out.status)
    /\ (Len(sent) >= 4 /\ FirstRetryable(4))
          => /\ Len(sent) = 4
             /\ pc = "done"
             /\ result.kind = "err"
             /\ result.status = sent[4].out.status
             /\ result.retries = 3
    /\ ReturnedFromSend
          => /\ FirstRetryable(Len(sent) - 1)
             /\ Retryable(Last(sent).out.status) => Len(sent) = 4
             /\ result.kind = "resp" => result.status = Last(sent).out.status

C4_Witness ==
    /\ pc = "done"
    /\ Len(sent) = 3
    /\ sent[1].out.status = 429
    /\ sent[2].out.status = 429
    /\ result = Response(200)

\* The pair a token endpoint answer carries.
PairOf(answer) ==
    [access |-> answer.access, refresh |-> answer.refresh,
     expires |-> answer.expires]

\* The token endpoint answered with status 200 and a non-empty access_token.
Issued(answer) ==
    answer # None /\ answer.kind = "json" /\ answer.status = 200
    /\ answer.access # ""

\* The latest RefreshIfExpired call found the token due for a refresh.
WasDue == Unix(lastRefresh.atMs) + 30 >= lastRefresh.before.expires

C6_CheckBeforeEveryAttempt ==
    pc # "idle"
    => /\ checks = IF pc = "retry" THEN attempt ELSE attempt + 1
       /\ pc = "send" => Len(sent) = checks - 1 /\ Len(slept) = Len(sent)
       /\ pc = "retry" => Len(sent) = checks
       /\ ReturnedFromSend \/ result.msg = "request failed"
             => Len(sent) = checks
       /\ (pc = "send" /\ attempt > 0)
             => /\ lastRefresh.atMs >= Last(sent).atMs + Last(slept)
                /\ Last(slept) > 0
       /\ Len(sent) <= checks

C6_Witness == pc = "send" /\ attempt = 2 /\ checks = 3 /\ Len(sent) = 2

\* C7: every attempt carries Authorization: Bearer <t> with t the access
\* token the shared config holds when the attempt is sent; after a refresh
\* between two attempts the later attempt carries the new token.
C7_BearerCurrentToken ==
    /\ (pc = "retry" \/ ReturnedFromSend \/ result.msg = "request failed")
          => Last(sent).auth = <<"Bearer", cfg.tokens.access>>
    /\ (/\ sent # <<>>
        /\ Len(sent) = checks
        /\ Issued(lastRefresh.answer))
          => Last(sent).auth = <<"Bearer", lastRefresh.answer.access>>

C7_Witness ==
    /\ Len(sent) >= 2
    /\ sent[1].auth = <<"Bearer", "tokA">>
    /\ sent[2].auth = <<"Bearer", "tokB">>

\* C8: with a GetBody function every attempt, retries included, carries the
\* complete payload of the first attempt, and a GetBody failure ends the
\* request with an error before the attempt is sent.
C8_BodyReplayed ==
    req.hasGetBody
    => /\ \A i \in 1..Len(sent) : sent[i].body = req.payload
       /\ result.msg = "reset request body for retry"
             => /\ pc = "done"
                /\ result.kind = "err"
                /\ Len(sent) = attempt
                /\ attempt > 0

C8_Witness ==
    /\ req.hasGetBody
    /\ Len(sent) = 3
    /\ sent[3].body = "p1"
    /\ bodyStream = "consumed"

\* C9: a network-level error on any attempt ends RoundTrip with an error at
\* once, with no further request; only a response with status 429 or >= 500
\* is followed by another attempt.
C9_NetworkErrorNotRetried ==
    /\ \A i \in 1..Len(sent) :
          sent[i].out.kind = "neterr"
          => /\ i = Len(sent)
             /\ pc = "done"
             /\ result.kind = "err"
             /\ result.msg = "request failed"
    /\ \A i \in 1..(Len(sent) - 1) :
          sent[i].out.kind = "resp" /\ Retryable(sent[i].out.status)
    /\ pc = "retry"
          => Last(sent).out.kind = "resp" /\ Retryable(Last(sent).out.status)

C9_Witness ==
    /\ pc = "done"
    /\ Len(sent) = 2
    /\ sent[2].out.kind = "neterr"
    /\ attempt = 1

----------------------------------------------------------------------------
(* Claims about the two-step remote login, checked under SpecAuth *)

\* The last command was a step 2 that found a stored PendingAuth.
Step2Found ==
    /\ lastCmd.name = "step2"
    /\ lastCmd.found
    /\ lastCmd.diskBefore # Corrupt
    /\ lastCmd.diskBefore.pending # None

\* The last command wrote nothing or wrote the whole file.
NoFailedSave == lastCmd.saved \in {"", "ok"}

\* C1: every step-2 attempt that finds a stored PendingAuth removes it from
\* the config file, whether it succeeds or fails, so that a second identical
\* step-2 call with no step 1 in between fails with "no pending login found".
\* Attempts whose write of the file fails are left aside.
C1_PendingConsumed ==
    /\ (Step2Found /\ NoFailedSave) => (disk # Corrupt /\ disk.pending = None)
    /\ (lastCmd.repeat /\ NoFailedSave)
          => lastCmd.err = "no pending login found"

\* The state in the input of the last step 2 is empty or differs from the
\* stored state.
StateRejected ==
    /\ Step2Found
    /\ \/ lastCmd.got = <<>>
       \/ lastCmd.got # <<lastCmd.diskBefore.pending.state>>

\* C3: a step 2 whose input carries an empty state, or a state different
\* from the one step 1 stored, returns an error, sends no request to the
\* token endpoint and stores no tokens.
C3_StateMismatchRejected ==
    StateRejected =>
        /\ lastCmd.err # ""
        /\ Len(tokenCalls) = lastCmd.callsBefore
        /\ cfg.tokens = lastCmd.diskBefore.tokens
        /\ disk # Corrupt => disk.tokens = lastCmd.diskBefore.tokens

\* A step 2 has been refused for a state that differs from the stored one.
C3_Witness ==
    /\ StateRejected
    /\ lastCmd.got # <<>>
    /\ lastCmd.err = "state mismatch"

----------------------------------------------------------------------------
(* Claims about the upload poller, checked under SpecPoll *)

\* The error text of job u is non-empty.
ErrorNonEmpty(u) == u.error # <<>> /\ u.error[1] # <<>>

\* C10: after the fetch of a tick, pollUpload stops with a failure carrying
\* the job's error message iff the job's error is non-empty, stops with
\* success reporting the activity id iff the error is empty and an activity
\* id is present, and otherwise stays pending: it stops on such a job only
\* past the deadline or on cancellation.
C10_TerminalIffJobFields ==
    lastJob # None =>
        /\ pollResult.kind = "failed" <=> ErrorNonEmpty(lastJob)
        /\ pollResult.kind = "failed"
              => pollResult.msg = stripHTML(lastJob.error[1])
        /\ pollResult.kind = "success"
              <=> (~ErrorNonEmpty(lastJob) /\ lastJob.activity # <<>>)
        /\ pollResult.kind = "success"
              => pollResult.activity = lastJob.activity
        /\ (~ErrorNonEmpty(lastJob) /\ lastJob.activity = <<>>)
              => \/ ppc # "done"
                 \/ pollResult.kind = "cancelled"
                 \/ /\ pollResult.kind = "timeout"
                    /\ nowMs > pollStartMs + timeout

\* The job fetched last is in no terminal state.
JobPending(u) == u # None /\ u.error = <<>> /\ u.activity = <<>>

\* A fetch that ends past the deadline with such a job ends the poll with the
\* timeout error.
TimeoutAtDeadline ==
    (/\ ppc = "fetch"
     /\ ppc' # "fetch"
     /\ JobPending(lastJob')
     /\ nowMs > pollStartMs + timeout)
        => /\ ppc' = "done"
           /\ pollResult' = PollReturn("timeout", TimeoutText, <<>>)

\* C11: pollUpload does not poll forever. It always returns, and a job that
\* is still in no terminal state at the first fetch that ends more than 5
\* minutes after the poll started makes it return the timeout error, which is
\* not a job error and names the command that shows the status.
C11_TimeoutNotHang ==
    /\ <>(ppc = "done")
    /\ [][TimeoutAtDeadline]_vars
    /\ [](pollResult.kind = "timeout"
            => /\ ppc = "done"
               /\ JobPending(lastJob)
               /\ nowMs > pollStartMs + timeout
               /\ pollResult.msg # <<>>)

\* The poll has timed out on a pending job.
C11_Witness ==
    /\ ppc = "done"
    /\ pollResult.kind = "timeout"
    /\ JobPending(lastJob)
    /\ nowMs > pollStartMs + timeout

\* After the cancellation no status fetch and no backoff wait is started.
NothingStartedAfterCancel ==
    cancelled => /\ fetches' = fetches
                 /\ slept' = slept \/ slept' = <<>>

\* C12: once the command's context is cancelled, polling stops at once: no
\* further status fetch and no further backoff wait inside the transport is
\* started.
C12_CancelStopsAtOnce == [][NothingStartedAfterCancel]_vars

\* The poll ended in success on its third fetch, after two pending jobs.
ThirdFetchSucceeded ==
    /\ ppc = "done"
    /\ pollResult.kind = "success"
    /\ fetches = 3

\* C13 as stated: the third fetch reports success about 6 seconds after the
\* poll started: not before 6 seconds, and before the tick at 9 seconds.
C13_AsStated ==
    ThirdFetchSucceeded
        => /\ nowMs >= pollStartMs + 2 * pollInterval
           /\ nowMs < pollStartMs + 3 * pollInterval

\* C13: fetches start on the ticks of a ticker of period pollInterval whose
\* first tick is due one period after the poll started, so the n-th fetch
\* starts no earlier than n periods after the start; for the jobs pending,
\* pending, {activity_id: 555} the third fetch ends the poll in success with
\* activity id 555, no earlier than 9 seconds after the poll started.
C13_TickSpacing ==
    /\ ppc # "off" => nextTickMs >= pollStartMs + (fetches + 1) * pollInterval
    /\ fetches >= 1 => nowMs >= pollStartMs + fetches * pollInterval
    /\ ThirdFetchSucceeded
          => /\ pollResult.activity = lastJob.activity
             /\ nowMs >= pollStartMs + 3 * pollInterval

\* Success with activity id 555 on the third fetch, 9 seconds after the start.
C13_Witness ==
    /\ ThirdFetchSucceeded
    /\ pollResult.activity = <<555>>
    /\ nowMs = pollStartMs + 3 * pollInterval

----------------------------------------------------------------------------
(* Claims about the config file, checked under SpecAuth *)

\* C14: config.Save is atomic: whatever happens during a Save, the file read
\* afterwards is the complete state stored before or the complete new state,
\* never an empty, truncated or corrupt file.
C14_SaveAtomic ==
    /\ Load(disk).err = ""
    /\ lastCmd.saved # "" => (disk = lastCmd.diskBefore \/ disk = cfg)

----------------------------------------------------------------------------
(* Claims about the local-callback login, checked under SpecLocal *)

\* The handler of request i waits to send on a channel that is full.
HandlerBlocked(i) ==
    /\ handlers[i].st = "send"
    /\ IF handlers[i].kind = "error"
       THEN Len(errCh) >= chanCap
       ELSE Len(codeCh) >= chanCap

\* C15: once the main flow has consumed its one signal, a further callback
\* or error is a no-op: no handler is left waiting on a channel, and so the
\* shutdown is never held up and loginLocal returns.
C15_NoBlockedProducer ==
    lpc \in {"shutdown", "drain", "exchange", "done"}
        => \A i \in 1..MaxCallbacks : ~HandlerBlocked(i)

----------------------------------------------------------------------------
(* Further claims about the two-step remote login, checked under SpecAuth *)

\* This step is a step 2 that reads a file with no PendingAuth.
Step2NoPending ==
    /\ cmds' = cmds + 1
    /\ lastCmd'.name = "step2"
    /\ disk # Corrupt
    /\ disk.pending = None

\* This step is a step 2 that reads a file whose PendingAuth has expired.
Step2Expired ==
    /\ cmds' = cmds + 1
    /\ lastCmd'.name = "step2"
    /\ disk # Corrupt
    /\ disk.pending # None
    /\ Unix(nowMs) > disk.pending.expires

\* A step 2 without PendingAuth fails, sends nothing and leaves the file.
NoPendingRefused ==
    Step2NoPending
        => /\ lastCmd'.err = "no pending login found"
           /\ tokenCalls' = tokenCalls
           /\ disk' = disk

Step1 == cmds' = cmds + 1 /\ lastCmd'.name = "step1"

\* C17: the store has one slot for a PendingAuth. A step 1 sends nothing to
\* the token endpoint; when the state was generated and the file written, the
\* slot holds that state, the redirect URI and the expiry now + 10 minutes,
\* whatever it held before, and the tokens are as before; and a step 1 fails
\* only if the file cannot be read, no state generated or the file not
\* written.
C17_SinglePendingSlot ==
    [][Step1
          => /\ tokenCalls' = tokenCalls
             /\ lastCmd'.saved = "ok"
                   => /\ lastCmd'.err = ""
                      /\ disk' # Corrupt
                      /\ disk'.pending # None
                      /\ disk'.pending.state \in GeneratedStates
                      /\ disk'.pending.redirect = CallbackURL
                      /\ disk'.pending.expires = Unix(nowMs) + pendingTTL
                      /\ disk'.tokens = disk.tokens
             /\ lastCmd'.err = "" => lastCmd'.saved = "ok"]_vars

\* A step 1 has replaced the PendingAuth of an earlier step 1 by another.
C17_Witness ==
    /\ lastCmd.name = "step1"
    /\ lastCmd.err = ""
    /\ lastCmd.diskBefore # Corrupt
    /\ lastCmd.diskBefore.pending # None
    /\ disk.pending # None
    /\ disk.pending.state # lastCmd.diskBefore.pending.state
    /\ Len(tokenCalls) = lastCmd.callsBefore

----------------------------------------------------------------------------
(* Further claims about the token refresher and the transport, under Spec *)

\* The latest RefreshIfExpired call found an empty access token.
NotLoggedIn == lastRefresh # None /\ lastRefresh.before.access = ""

\* C18: with an empty access token RefreshIfExpired fails with "not
\* authenticated" and makes no exchange call, whatever the expiry and the
\* refresh token, and leaves the Config and the file; RoundTrip returns that
\* error and has sent no API request.
C18_NotAuthenticated ==
    NotLoggedIn
        => /\ lastRefresh.err = "not authenticated"
           /\ lastRefresh.answer = None
           /\ Len(tokenCalls) = lastRefresh.callsBefore
           /\ cfg.tokens = lastRefresh.before
           /\ disk = lastRefresh.diskBefore
           /\ pc = "done"
           /\ result = Failure("not authenticated")
           /\ sent = <<>>

\* RoundTrip has refused a request for a Config with a refresh token and a
\* passed expiry but no access token.
C18_Witness ==
    /\ NotLoggedIn
    /\ lastRefresh.before.refresh = "r0"
    /\ lastRefresh.before.expires = 0
    /\ result = Failure("not authenticated")
    /\ tokenCalls = <<>>

\* The latest RefreshIfExpired call was due to refresh and its exchange did
\* not return a pair.
RefreshFailed ==
    /\ lastRefresh # None
    /\ lastRefresh.before.access # ""
    /\ WasDue
    /\ ~Issued(lastRefresh.answer)

\* C19: when a refresh is due and the exchange fails, RefreshIfExpired makes
\* that one call, returns the error that asks for a new login and changes
\* neither the Config nor the file, and RoundTrip returns that error without
\* the attempt the check was made for: before attempt 0 nothing has been
\* sent, before retry n only attempts 0..n-1.
C19_RefreshFailureIsFatal ==
    RefreshFailed
        => /\ lastRefresh.err = "refresh token"
           /\ Len(tokenCalls) = lastRefresh.callsBefore + 1
           /\ Last(tokenCalls).grant = "refresh_token"
           /\ cfg.tokens = lastRefresh.before
           /\ disk = lastRefresh.diskBefore
           /\ pc = "done"
           /\ result = Failure("refresh token")
           /\ Len(sent) = attempt
           /\ checks = attempt + 1

\* A refresh that fell due during a backoff wait was answered 401 and ended
\* RoundTrip before the retry.
C19_Witness ==
    /\ RefreshFailed
    /\ lastRefresh.answer.status = 401
    /\ attempt >= 1
    /\ Len(sent) = attempt
    /\ result = Failure("refresh token")

----------------------------------------------------------------------------
(* Claims about token exchanges, checked under SpecLogin *)

\* This step POSTs once to the token endpoint.
ExchangeStep == Len(tokenCalls') = Len(tokenCalls) + 1

\* The answer the token endpoint gave in this step.
AnswerOf ==
    IF lpc = "exchange" THEN localResult'.answer ELSE lastRefresh'.answer

\* The exchange of this step returned a pair and no error.
ExchangeOK ==
    IF lpc = "exchange"
    THEN localResult'.kind = "ok" \/ localResult'.msg = "save config"
    ELSE lastRefresh'.err = "" \/ lastRefresh'.err = "write config"

\* This step leaves a readable file with other tokens than before.
TokensWritten ==
    /\ disk' # Corrupt
    /\ disk' # disk
    /\ IF disk = Corrupt THEN TRUE ELSE disk'.tokens # disk.tokens

\* C20: an exchange, by the login or by a refresh, succeeds iff the token
\* endpoint answers 200 with a non-empty access_token; after any other
\* answer neither the Config nor the file changes; tokens are written to the
\* file only in a step whose exchange succeeded, and are the pair of its
\* answer. So the tokens in the file are the ones never logged in with, or
\* have a non-empty access_token.
C20_OnlyIssuedPairsStored ==
    /\ [][/\ ExchangeStep => (ExchangeOK <=> Issued(AnswerOf))
          /\ (ExchangeStep /\ ~Issued(AnswerOf))
                => (disk' = disk /\ cfg' = cfg)
          /\ TokensWritten
                => /\ ExchangeStep
                   /\ Issued(AnswerOf)
                   /\ disk'.tokens = PairOf(AnswerOf)
                   /\ disk'.tokens.access # ""]_vars
    /\ []((disk # Corrupt /\ disk.tokens.access = "")
             => disk.tokens = NoTokens)

\* A login has stored a pair and a later refresh has replaced it.
C20_Witness ==
    /\ lpc = "exited"
    /\ lastRefresh # None
    /\ Issued(lastRefresh.answer)
    /\ lastRefresh.before.access = "tokB"
    /\ lastRefresh.saved = "ok"
    /\ disk # Corrupt
    /\ disk.tokens = PairOf(lastRefresh.answer)
    /\ Len(tokenCalls) >= 2

----------------------------------------------------------------------------
(* Claims about the token endpoint calls, checked under SpecCeiling *)

\* C21: every refresh or code-exchange call has a ceiling: when the token
\* endpoint never answers, the RoundTrip waiting on a refresh still returns
\* an error, and the login waiting on a code exchange still ends with an
\* error.
C21_TokenCallHasCeiling ==
    /\ (pc = "tokenwait") ~> (pc = "done" /\ result.kind = "err")
    /\ (lpc = "tokenwait") ~> (lpc = "done" /\ localResult.kind = "err")

----------------------------------------------------------------------------
(* Further claims about RefreshIfExpired, checked under Spec *)

\* A step that calls RefreshIfExpired again in the same second of the clock
\* as a call that returned success.
ImmediateSecondCall ==
    /\ lastRefresh # None
    /\ lastRefresh.err = ""
    /\ lastRefresh' # lastRefresh
    /\ Unix(lastRefresh'.atMs) = Unix(lastRefresh.atMs)

\* The step makes no exchange call and leaves the pair alone, in memory and
\* in the store.
NoExchange ==
    /\ tokenCalls' = tokenCalls
    /\ cfg'.tokens = cfg.tokens
    /\ disk' = disk

\* C22 as stated: a second RefreshIfExpired right after a successful one
\* makes no exchange call and changes neither pair, whatever pair the token
\* endpoint returned.
C22_AsStated == [][ImmediateSecondCall => NoExchange]_vars

\* C22: a second RefreshIfExpired right after a successful one makes no
\* exchange call and changes neither pair when the pair then held expires
\* more than 30 seconds later; when the token endpoint returned a pair that
\* expires within 30 seconds, the second call makes an exchange call again.
C22_IdempotentOnFreshPair ==
    [][ImmediateSecondCall
        => IF Unix(lastRefresh'.atMs) + 30 < cfg.tokens.expires
           THEN NoExchange
           ELSE /\ Len(tokenCalls') = Len(tokenCalls) + 1
                /\ Last(tokenCalls').grant = "refresh_token"]_vars

\* The first check refreshed, the check after the first backoff fell in the
\* same second and made no call.
C22_Witness ==
    /\ checks = 2
    /\ lastRefresh # None
    /\ lastRefresh.err = ""
    /\ Unix(lastRefresh.atMs) = 0
    /\ lastRefresh.callsBefore = 1
    /\ Len(tokenCalls) = 1
    /\ tokenCalls[1].grant = "refresh_token"
    /\ cfg.tokens = lastRefresh.before
    /\ cfg.tokens.access = "tokB"
    /\ disk = cfg

\* The waits the claim gives for the default base, ms.
StatedWaits == <<500, 1000, 2000>>

\* C23: the wait before retry attempt n is baseBackoff * 2^(n-1), i.e. 500 ms,
\* 1 s, 2 s, with nothing added: one wait before each retry attempt, none
\* before attempt 0 and none after the last attempt, and the time between the
\* answers of two attempts is the wait plus the latency of the later one.
C23_BackoffSchedule ==
    /\ Len(slept) <= maxRetries
    /\ \A n \in 1..Len(slept) :
          /\ slept[n] = StatedWaits[n]
          /\ slept[n] = baseBackoff * 2 ^ (n - 1)
    /\ pc = "send" => Len(slept) = attempt /\ Len(sent) = attempt
    /\ pc = "retry" => Len(slept) = attempt - 1 /\ Len(sent) = attempt
    /\ pc = "done" => Len(slept) \in {Len(sent) - 1, Len(sent)}
    /\ (pc = "done" /\ Len(sent) = maxRetries + 1) => Len(slept) = maxRetries
    /\ Len(sent) <= Len(slept) + 1
    /\ \A n \in 1..(Len(sent) - 1) :
          sent[n + 1].atMs - sent[n].atMs - slept[n] \in Latencies

\* All three retries were made.
C23_Witness ==
    /\ pc = "done"
    /\ Len(sent) = 4
    /\ slept = <<500, 1000, 2000>>
    /\ result.kind = "err"
    /\ result.retries = 3

----------------------------------------------------------------------------
(* Claims about the manual-paste login, checked under SpecManual *)

\* The code the extraction is specified to give for text t that parses: the
\* code parameter when t contains ? or &, and t itself otherwise.
StatedCode(t) ==
    IF Contains(t, "?") \/ Contains(t, "&") THEN QueryGet(t, "code") ELSE t

\* The latest command was a manual login that got as far as the prompt, on
\* text the URL parser accepts.
ManualRan ==
    /\ lastCmd.name = "manual"
    /\ lastCmd.err # "load config"
    /\ ParseOK(TrimSpace(lastCmd.pasted))

\* C24: in the manual-paste flow the code is the code parameter of a pasted
\* text that contains ? or &, and the whole text otherwise; an empty
\* extraction fails the login with an input error and no exchange is made,
\* and any exchange made carries the extracted code.
C24_ManualExtraction ==
    ManualRan =>
        LET code == StatedCode(TrimSpace(lastCmd.pasted))
        IN  IF code = <<>>
            THEN /\ lastCmd.err = "no authorization code found"
                 /\ Len(tokenCalls) = lastCmd.callsBefore
            ELSE /\ Len(tokenCalls) = lastCmd.callsBefore + 1
                 /\ Last(tokenCalls) = CodeForm(code)

----------------------------------------------------------------------------
(* Claims about the extraction of step 2, checked under SpecAuth *)

\* The latest command was a step 2 that found an unexpired PendingAuth and so
\* went on to the extraction, on text the URL parser accepts.
Step2Extracted ==
    /\ lastCmd.name = "step2"
    /\ lastCmd.found
    /\ lastCmd.err # "auth URL expired"
    /\ ParseOK(StripBackslashes(TrimSpace(lastCmd.pasted)))

\* The command made one exchange call.
Step2Exchanged == Len(tokenCalls) = lastCmd.callsBefore + 1

----------------------------------------------------------------------------
(* Claims about the write commands, checked under SpecWrite *)

\* The command has handed its request to the client, or anything has gone
\* out to the API or to the token endpoint.
WriteUnderWay ==
    \/ gate.st = "requested"
    \/ pc # "idle"
    \/ sent # <<>>
    \/ tokenCalls # <<>>

\* C26: a write command sends its request only after the gate let it
\* proceed: never with --dry-run, with or without --yes, and without
\* --dry-run only with --yes or after the operator answered y at the prompt.
C26_ConfirmationGate ==
    /\ gate.dryRun => ~WriteUnderWay
    /\ WriteUnderWay
          => /\ gate.cmd \in WriteCommands
             /\ ~gate.dryRun
             /\ gate.yes \/ (gate.asked /\ gate.ans \in {"y", "Y"})

\* An upload confirmed at the prompt was sent and answered.
C26_Witness ==
    /\ gate.cmd = "upload"
    /\ ~gate.yes
    /\ gate.ans = "y"
    /\ pc = "done"
    /\ result.kind = "resp"
    /\ sent # <<>>
    /\ Last(sent).body = "p1"

----------------------------------------------------------------------------
(* Claims about the stored TokenPair, checked under SpecAuth *)

\* The TokenPair in the Credential Store; a file that cannot be read holds
\* none.
StoredPair(d) == IF d = Corrupt THEN Corrupt ELSE d.tokens

\* The step made a token endpoint call that issued the pair now held in
\* memory, and a readable store holds that pair.
PairIssuedInStep ==
    /\ Len(tokenCalls') = Len(tokenCalls) + 1
    /\ cfg'.tokens.access # ""
    /\ disk' # Corrupt => disk'.tokens = cfg'.tokens

\* C27: the stored TokenPair changes only in a step that makes a successful
\* code exchange or a successful refresh: step 1 of the remote login, failed
\* logins, failed or expired step 2 and checks that need no refresh leave it
\* as it was.
C27_PairChangesOnlyOnIssue ==
    [][StoredPair(disk') # StoredPair(disk) => PairIssuedInStep]_vars

----------------------------------------------------------------------------
(* Further claims about the local-callback login, checked under SpecLocal *)

\* The errors with which loginLocal ends without a code.
NoCodeEndings ==
    {"authorization denied", "authorization timed out", "serve",
     "start callback server"}

\* loginLocal has left its select, or never reached it.
StoppedWaiting == lpc \in {"shutdown", "drain", "exchange", "tokenwait", "done"}

\* A callback request with a code parameter was handled.
CodeDelivered ==
    \E i \in 1..MaxCallbacks :
        handlers[i].kind = "code" /\ handlers[i].st = "done"

\* C28: loginLocal stops waiting only on a callback with a code parameter, a
\* callback with an error parameter, the 5-minute timeout or a failure of the
\* listener; an exchange is attempted only in the first case, with the code
\* of the callback and once the listener is shut down; after an error, the
\* timeout or a bind failure no exchange request is sent.
C28_StopsOnlyOnSignal ==
    /\ (StoppedWaiting /\ Load(disk).err = "" /\ localResult.msg # "load config")
          => \/ localResult.code # <<>> /\ CodeDelivered
             \/ localResult.msg \in NoCodeEndings
    /\ tokenCalls # <<>>
          => /\ CodeDelivered
             /\ localResult.code = CodeOf("code")
             /\ tokenCalls = <<CodeForm(localResult.code)>>
             /\ ~listening
    /\ localResult.msg \in NoCodeEndings => tokenCalls = <<>>

----------------------------------------------------------------------------
(* Claims about the outcome of RefreshIfExpired, checked under Spec *)

\* C29: RefreshIfExpired is all-or-nothing: when it returns an error, the
\* pair in memory and the pair in the store are as they were before the
\* call; when it returns success after an exchange, both are the pair just
\* issued; the two never differ.
C29_RefreshAllOrNothing ==
    lastRefresh # None
    => /\ lastRefresh.err # ""
             => /\ cfg.tokens = lastRefresh.before
                /\ disk = lastRefresh.diskBefore
       /\ (lastRefresh.err = ""
           /\ Len(tokenCalls) = lastRefresh.callsBefore + 1)
             => /\ Issued(lastRefresh.answer)
                /\ cfg.tokens = PairOf(lastRefresh.answer)
                /\ StoredPair(disk) = PairOf(lastRefresh.answer)
       /\ StoredPair(disk) = cfg.tokens

----------------------------------------------------------------------------
(* Further claims about the upload poller, checked under SpecPoll *)

\* The step in which pollUpload takes the result of a fetch.
FetchReturns == ppc = "fetch" /\ ppc' # "fetch"

\* That fetch failed in the transport or was answered with another status
\* than 200.
RoundTripFailed == result.kind = "err" \/ result.status # 200

\* C30: the first status fetch that fails, by a transport error or exhausted
\* retries, another status than 200, or a body that cannot be parsed, ends
\* pollUpload with that error and is not followed by another poll; and once
\* pollUpload has stopped, for whatever reason, no status fetch is issued.
C30_StopsOnFetchFailure ==
    [][/\ FetchReturns
            => /\ RoundTripFailed
                     => /\ ppc' = "done"
                        /\ pollResult'.kind = "fetcherr"
                        /\ pollResult'.msg =
                              <<IF result.kind = "err" THEN result.msg
                                ELSE "HTTP">>
               /\ lastJob' = None
                     => /\ ppc' = "done"
                        /\ pollResult'.kind = "fetcherr"
               /\ (~RoundTripFailed /\ lastJob' = None)
                     => pollResult'.msg = <<"parse response">>
               /\ ppc' = "select"
                     => ~RoundTripFailed /\ lastJob' # None /\ lastJob'.json
       /\ ppc = "done"
            => /\ ppc' = "done"
               /\ pollResult' = pollResult
               /\ fetches' = fetches
               /\ pc' = "idle"
               /\ sent' = <<>>
               /\ tokenCalls' = tokenCalls]_vars

\* The second fetch was answered 404 after a first that found the job
\* pending, and pollUpload returned.
C30_Witness ==
    /\ ppc = "done"
    /\ fetches = 2
    /\ pollResult.kind = "fetcherr"
    /\ pollResult.msg = <<"HTTP">>
    /\ lastJob = None
    /\ pc = "idle"

====
